---------------------------- MODULE Spec2Model ----------------------------
(***************************************************************************)
(* GeoWatchBroker (geowatchutil/broker/base.py): the polling run loop, the *)
(* push path receive_messages, the phases they share (_cycle_in with       *)
(* cycle_in_consumer, _cycle_filter and _cycle_out), the _pre and _post    *)
(* hooks, and close.                                                       *)
(*                                                                         *)
(* The broker is single threaded.  A behaviour is one top-level call on a  *)
(* constructed broker, split at every collaborator call: a store read, a   *)
(* get_messages, a send_messages or a write_messages is one step, and what *)
(* the collaborator answers (its messages, or an exception) is that step's *)
(* input.  `calls` is the record of the collaborator and hook calls of the *)
(* current cycle, in the order they were made.                             *)
(***************************************************************************)
EXTENDS Integers, Sequences, FiniteSets

(***************************************************************************)
(* Bounds of the model.                                                    *)
(***************************************************************************)
\* the largest per-cycle cap self.count
MaxCount == 2
\* the most messages the input stores hold together, and a source has pending
MaxBatch == 1
\* the most collaborators (stores, consumers, duplex nodes, producers) a broker has
MaxNodes == 2
\* the most cycles of run that are followed
MaxCycle == 2
\* the longest sequence pushed into receive_messages
MaxPush == 2

(***************************************************************************)
(* Messages.  A message is opaque to the broker: the code only compares    *)
(* messages for equality (deduplication) and tests whether the string      *)
(* "metadata" is an element of the message list (_cycle_filter).  "a" is a *)
(* plain string without metadata and "us" stands for a record carrying     *)
(* metadata {"region": "us"}; these are what stores and sources hand over. *)
(* A caller of receive_messages may also push the plain string "metadata". *)
(***************************************************************************)
Msgs == {"a", "us"}

PushMsgs == Msgs \cup {"metadata"}

SeqsOver(S, n) == UNION {[1..k -> S] : k \in 0..n}

SeqsUpTo(n) == SeqsOver(Msgs, n)

\* the message lists a caller passes to receive_messages
Pushes == SeqsOver(PushMsgs, MaxPush)

\* a list attribute left at None, __init__'s default; a list is given by its length
NoneVal == -1

\* Python truth value of a list attribute (None and [] are both false)
Truthy(n) == n > 0

\* Python truth value of a message list
NonEmpty(ms) == Len(ms) > 0

\* the rule sets self.filter_metadata may hold: key -> allowed values, as a set of pairs
FilterRules == { {}, {<<"region", {"us", "eu"}>>}, {<<"region", {"eu"}>>} }

VARIABLES
    self,           \* the broker's configuration, fixed by __init__
    pc,             \* where the top-level call stands
    op,             \* "none", "run" or "receive": the top-level call in progress
    max_cycle,      \* run's argument
    run_cycle_out,  \* run's argument
    cycle,          \* run's cycle counter
    idx,            \* position in the collaborator list being iterated
    messages_all,   \* _cycle_in's aggregation buffer
    messages,       \* the caller's local `messages`
    calls,          \* the collaborator and hook calls of this cycle, in order
    sleeps,         \* how many times run has slept
    exc,            \* the exception that ended the call, "" when none
    phases,         \* how many times _pre, _cycle_in, _cycle_out, _post were called
    received,       \* the arguments receive_messages was called with
    closed,         \* the close() calls that close has made on collaborators
    earlier         \* with deduplicate set: the messages that this run's earlier
                    \* cycles sent to their destinations

vars == <<self, pc, op, max_cycle, run_cycle_out, cycle, idx, messages_all,
          messages, calls, sleeps, exc, phases, received, closed, earlier>>

(***************************************************************************)
(* Construction.                                                           *)
(***************************************************************************)
Configs ==
    { c \in [ count : 0..MaxCount,
              deduplicate : BOOLEAN,
              filter_metadata : FilterRules,
              filter_last_one : BOOLEAN,
              consumers : 0..MaxNodes,
              producers : 0..MaxNodes,
              duplex : 0..MaxNodes,
              stores_in : 0..MaxNodes,
              stores_out : 0..MaxNodes ] :
        c.consumers + c.producers + c.duplex + c.stores_in + c.stores_out <= MaxNodes }

InitOf(configs) ==
    /\ self \in configs
    /\ pc = "idle"
    /\ op = "none"
    /\ max_cycle = 0
    /\ run_cycle_out = TRUE
    /\ cycle = 0
    /\ idx = 0
    /\ messages_all = <<>>
    /\ messages = <<>>
    /\ calls = <<>>
    /\ sleeps = 0
    /\ exc = ""
    /\ phases = [pre |-> 0, cycle_in |-> 0, cycle_out |-> 0, post |-> 0]
    /\ received = [messages |-> <<>>, filter_messages |-> TRUE]
    /\ closed = <<>>
    /\ earlier = {}

\* a broker constructed with any filter settings
InitFilter == InitOf(Configs)

\* a broker constructed with __init__'s default filter settings
Init == InitOf({c \in Configs : c.filter_metadata = {} /\ ~c.filter_last_one})

\* the number of collaborators in a list attribute
Size(n) == IF n = NoneVal THEN 0 ELSE n

\* brokers that tell a producers or stores_out left at None from an empty
\* list, with __init__'s default filter settings
ConfigsClose ==
    { c \in [ count : 0..MaxCount,
              deduplicate : BOOLEAN,
              filter_metadata : {{}},
              filter_last_one : {FALSE},
              consumers : 0..MaxNodes,
              producers : {NoneVal} \cup 0..MaxNodes,
              duplex : 0..MaxNodes,
              stores_in : 0..MaxNodes,
              stores_out : {NoneVal} \cup 0..MaxNodes ] :
        c.consumers + Size(c.producers) + c.duplex + c.stores_in + Size(c.stores_out)
            <= MaxNodes }

InitClose == InitOf(ConfigsClose)

(***************************************************************************)
(* The record of one call.                                                 *)
(***************************************************************************)
Call(o, k, n, mx, pend, ms, fl, good) ==
    [op |-> o, kind |-> k, node |-> n, max_count |-> mx, pending |-> pend,
     msgs |-> ms, flush |-> fl, ok |-> good]

(***************************************************************************)
(* _cycle_in: deduplication.                                               *)
(***************************************************************************)
RECURSIVE DedupeLoop(_, _, _)
DedupeLoop(ms, seen, out) ==
    IF ms = <<>> THEN out
    ELSE IF Head(ms) \notin seen
         THEN DedupeLoop(Tail(ms), seen \cup {Head(ms)}, Append(out, Head(ms)))
         ELSE DedupeLoop(Tail(ms), seen, out)

\* mutant: the deduplicate flag is ignored
CycleInResultNoDedup(all) == all

\* mutant: what earlier cycles sent counts as seen
CycleInResultSeenKept(all) ==
    IF self.deduplicate THEN DedupeLoop(all, earlier, <<>>) ELSE all

CycleInResult(all) ==
    IF self.deduplicate THEN DedupeLoop(all, {}, <<>>) ELSE all

(***************************************************************************)
(* _cycle_filter.  The loop over the messages tests `"metadata" in         *)
(* messages` on the list: it is true only when the list holds the string   *)
(* "metadata", and then messages["metadata"] indexes a list by a string,   *)
(* a TypeError.  Otherwise every message is kept.  filter_last_one indexes *)
(* messages_filtered[-1], an IndexError on the empty list.  The function   *)
(* returns `messages`, its argument.                                       *)
(***************************************************************************)
MetadataInList(ms) == \E i \in 1..Len(ms) : ms[i] = "metadata"

CycleFilter(ms) ==
    IF self.filter_metadata # {} /\ NonEmpty(ms) /\ MetadataInList(ms)
    THEN [raised |-> "TypeError", value |-> <<>>]
    ELSE LET messages_filtered == ms
         IN IF self.filter_last_one /\ Len(messages_filtered) = 0
            THEN [raised |-> "IndexError", value |-> <<>>]
            ELSE [raised |-> "", value |-> ms]

(***************************************************************************)
(* The collaborators in the order _cycle_in visits them (input stores,     *)
(* consumers, duplex nodes; an empty or None list is skipped) and in the   *)
(* order _cycle_out visits them (producers, duplex nodes, output stores).  *)
(***************************************************************************)
Nodes(kind, n) == [i \in 1..(IF Truthy(n) THEN n ELSE 0) |-> [kind |-> kind, node |-> i]]

\* mutant: the duplex nodes are not sent to
DestinationsNoDuplex ==
    Nodes("producers", self.producers) \o Nodes("stores_out", self.stores_out)

\* mutant: the duplex nodes are sent to before the producers
DestinationsDuplexFirst ==
    Nodes("duplex", self.duplex) \o Nodes("producers", self.producers)
        \o Nodes("stores_out", self.stores_out)

\* mutant: the consumers are polled before the input stores are read
SourcesConsumersFirst ==
    Nodes("consumers", self.consumers) \o Nodes("stores_in", self.stores_in)
        \o Nodes("duplex", self.duplex)

Sources ==
    Nodes("stores_in", self.stores_in) \o Nodes("consumers", self.consumers)
        \o Nodes("duplex", self.duplex)

Destinations ==
    Nodes("producers", self.producers) \o Nodes("duplex", self.duplex)
        \o Nodes("stores_out", self.stores_out)

(***************************************************************************)
(* run: entry, and the pre-hook that opens a cycle.                        *)
(***************************************************************************)
Run(mc, rco) ==
    /\ pc = "idle"
    /\ pc' = "pre"
    /\ op' = "run"
    /\ max_cycle' = mc
    /\ run_cycle_out' = rco
    /\ cycle' = 1
    /\ UNCHANGED <<self, idx, messages_all, messages, calls, sleeps, exc, phases, received, closed, earlier>>

\* self._pre(), then _cycle_in's first lines
Pre ==
    /\ pc = "pre"
    /\ calls' = <<Call("_pre", "hook", 0, 0, 0, <<>>, FALSE, TRUE)>>
    /\ messages_all' = <<>>
    /\ messages' = <<>>
    /\ idx' = 1
    /\ pc' = "cycle_in"
    /\ phases' = [phases EXCEPT !.pre = @ + 1, !.cycle_in = @ + 1]
    /\ UNCHANGED <<self, op, max_cycle, run_cycle_out, cycle, sleeps, exc, received, closed,
                   earlier>>

\* self._pre() of a subclass that overrides the hook, raising
PreRaises ==
    /\ pc = "pre"
    /\ calls' = <<Call("_pre", "hook", 0, 0, 0, <<>>, FALSE, FALSE)>>
    /\ pc' = "raised"
    /\ exc' = "CollaboratorError"
    /\ phases' = [phases EXCEPT !.pre = @ + 1]
    /\ UNCHANGED <<self, op, max_cycle, run_cycle_out, cycle, idx, messages_all, messages,
                   sleeps, received, closed, earlier>>

\* mutant: the exception is caught and the call goes on to the post-hook
RaiseCaught(c) ==
    /\ calls' = Append(calls, c)
    /\ pc' = "post"
    /\ UNCHANGED <<self, op, max_cycle, run_cycle_out, cycle, idx, messages_all,
                   messages, sleeps, exc, received, closed, earlier>>

\* a collaborator call raises: nothing catches it, the top-level call ends
Raise(c) ==
    /\ calls' = Append(calls, c)
    /\ pc' = "raised"
    /\ exc' = "CollaboratorError"
    /\ UNCHANGED <<self, op, max_cycle, run_cycle_out, cycle, idx, messages_all,
                   messages, sleeps, received, closed, earlier>>

(***************************************************************************)
(* _cycle_in: one input store, read in full.                               *)
(***************************************************************************)
StoreRead(node) ==
    \/ \E ret \in SeqsUpTo(MaxBatch - Len(messages_all)) :
         /\ calls' = Append(calls, Call("read", "stores_in", node, 0, Len(ret), ret, FALSE, TRUE))
         /\ messages_all' = IF NonEmpty(ret) THEN messages_all \o ret ELSE messages_all
         /\ idx' = idx + 1
         /\ UNCHANGED <<self, pc, op, max_cycle, run_cycle_out, cycle, messages, sleeps, exc,
                        phases, received, closed, earlier>>
    \/ /\ Raise(Call("read", "stores_in", node, 0, 0, <<>>, FALSE, FALSE))
       /\ UNCHANGED phases

(***************************************************************************)
(* cycle_in_consumer, for one consumer or duplex node.  The node has       *)
(* `pend` messages pending and hands over at most min(left, pend) of them. *)
(***************************************************************************)
\* mutant: the messages already aggregated are not subtracted
LeftIgnoresBuffer(all) == self.count

Left(all) == self.count - Len(all)

CycleInConsumer(kind, node) ==
    LET left == Left(messages_all)
    IN IF left > 0
       THEN \/ \E pend \in 0..MaxBatch :
               \E ret \in SeqsUpTo(IF pend < left THEN pend ELSE left) :
                 /\ calls' = Append(calls, Call("get_messages", kind, node, left, pend, ret, FALSE, TRUE))
                 /\ messages_all' = IF NonEmpty(ret) THEN messages_all \o ret ELSE messages_all
                 /\ idx' = idx + 1
                 /\ UNCHANGED <<self, pc, op, max_cycle, run_cycle_out, cycle, messages, sleeps,
                                exc, phases, received, closed, earlier>>
            \/ /\ Raise(Call("get_messages", kind, node, left, 0, <<>>, FALSE, FALSE))
               /\ UNCHANGED phases
       ELSE /\ idx' = idx + 1
            /\ UNCHANGED <<self, pc, op, max_cycle, run_cycle_out, cycle, messages_all,
                           messages, calls, sleeps, exc, phases, received, closed, earlier>>

\* one iteration of _cycle_in's loops
CycleIn ==
    /\ pc = "cycle_in"
    /\ idx <= Len(Sources)
    /\ IF Sources[idx].kind = "stores_in"
       THEN StoreRead(Sources[idx].node)
       ELSE CycleInConsumer(Sources[idx].kind, Sources[idx].node)

(***************************************************************************)
(* Where a top-level call goes once the filter has returned: into          *)
(* _cycle_out's loops when it is called with a non-empty batch and there   *)
(* is a destination, else on to the post-hook.                             *)
(***************************************************************************)
\* mutant: _cycle_out does not test `if messages`
AfterFilterNoEmptyTest(ms, out) ==
    IF out /\ Len(Destinations) > 0 THEN "cycle_out" ELSE "post"

\* mutant: run calls _cycle_out whatever run_cycle_out is
AfterFilterIgnoresFlag(ms, out) ==
    IF NonEmpty(ms) /\ Len(Destinations) > 0 THEN "cycle_out" ELSE "post"

AfterFilter(ms, out) ==
    IF out /\ NonEmpty(ms) /\ Len(Destinations) > 0 THEN "cycle_out" ELSE "post"

(***************************************************************************)
(* run, lines 59-64: _cycle_in's loops are over; deduplicate, return,      *)
(* filter, and enter _cycle_out if asked.                                  *)
(***************************************************************************)
CycleInReturn ==
    /\ pc = "cycle_in"
    /\ idx > Len(Sources)
    /\ LET out == CycleInResult(messages_all)
           r == CycleFilter(out)
       IN IF r.raised # ""
          THEN /\ messages' = out
               /\ pc' = "raised"
               /\ exc' = r.raised
               /\ UNCHANGED phases
          ELSE /\ messages' = r.value
               /\ pc' = AfterFilter(r.value, run_cycle_out)
               /\ exc' = exc
               /\ phases' = IF run_cycle_out
                             THEN [phases EXCEPT !.cycle_out = @ + 1]
                             ELSE phases
    /\ idx' = 1
    /\ UNCHANGED <<self, op, max_cycle, run_cycle_out, cycle, messages_all, calls, sleeps,
                   received, closed, earlier>>

(***************************************************************************)
(* receive_messages(messages, filter_messages), up to its first            *)
(* collaborator call.                                                      *)
(***************************************************************************)
\* mutant: the filter_messages argument is ignored, the filter always runs
ReceiveMessagesAlwaysFilters(ms, filter_messages) ==
    /\ pc = "idle"
    /\ op' = "receive"
    /\ received' = [messages |-> ms, filter_messages |-> filter_messages]
    /\ LET r == CycleFilter(ms)
       IN IF r.raised # ""
          THEN /\ messages' = ms
               /\ pc' = "raised"
               /\ exc' = r.raised
               /\ UNCHANGED phases
          ELSE /\ messages' = r.value
               /\ pc' = AfterFilter(r.value, TRUE)
               /\ exc' = exc
               /\ phases' = [phases EXCEPT !.cycle_out = @ + 1]
    /\ idx' = 1
    /\ UNCHANGED <<self, max_cycle, run_cycle_out, cycle, messages_all, calls, sleeps, closed, earlier>>

ReceiveMessages(ms, filter_messages) ==
    /\ pc = "idle"
    /\ op' = "receive"
    /\ received' = [messages |-> ms, filter_messages |-> filter_messages]
    /\ LET r == IF filter_messages THEN CycleFilter(ms) ELSE [raised |-> "", value |-> ms]
       IN IF r.raised # ""
          THEN /\ messages' = ms
               /\ pc' = "raised"
               /\ exc' = r.raised
               /\ UNCHANGED phases
          ELSE /\ messages' = r.value
               /\ pc' = AfterFilter(r.value, TRUE)
               /\ exc' = exc
               /\ phases' = [phases EXCEPT !.cycle_out = @ + 1]
    /\ idx' = 1
    /\ UNCHANGED <<self, max_cycle, run_cycle_out, cycle, messages_all, calls, sleeps, closed, earlier>>

(***************************************************************************)
(* _cycle_out: one send_messages or write_messages call.                   *)
(***************************************************************************)
OutCall(dest, ms, good) ==
    IF dest.kind = "stores_out"
    THEN Call("write_messages", dest.kind, dest.node, 0, 0, ms, TRUE, good)
    ELSE Call("send_messages", dest.kind, dest.node, 0, 0, ms, FALSE, good)

CycleOut ==
    /\ pc = "cycle_out"
    /\ \/ /\ calls' = Append(calls, OutCall(Destinations[idx], messages, TRUE))
          /\ idx' = idx + 1
          /\ pc' = IF idx < Len(Destinations) THEN "cycle_out" ELSE "post"
          /\ UNCHANGED <<self, op, max_cycle, run_cycle_out, cycle, messages_all,
                         messages, sleeps, exc, phases, received, closed, earlier>>
       \/ /\ Raise(OutCall(Destinations[idx], messages, FALSE))
          /\ UNCHANGED phases

(***************************************************************************)
(* self._post(messages).  It ends receive_messages; in run the loop's tail *)
(* follows: break when max_cycle is reached, else count the cycle and      *)
(* sleep.                                                                  *)
(***************************************************************************)
\* `earlier` once this cycle is over: the cycle's batch is added when
\* deduplicate is set and the batch went into _cycle_out's loops
SentSoFar ==
    IF self.deduplicate /\ AfterFilter(messages, run_cycle_out) = "cycle_out"
    THEN earlier \cup {messages[i] : i \in 1..Len(messages)}
    ELSE earlier

\* mutant: the loop sleeps before it tests max_cycle
PostSleepsBeforeBreak ==
    /\ pc = "post"
    /\ phases' = [phases EXCEPT !.post = @ + 1]
    /\ calls' = Append(calls, Call("_post", "hook", 0, 0, 0, messages, FALSE, TRUE))
    /\ IF op = "run"
       THEN IF max_cycle > 0 /\ cycle = max_cycle
            THEN /\ pc' = "stopped"
                 /\ sleeps' = sleeps + 1
                 /\ UNCHANGED <<cycle, earlier>>
            ELSE /\ cycle < MaxCycle
                 /\ cycle' = cycle + 1
                 /\ sleeps' = sleeps + 1
                 /\ earlier' = SentSoFar
                 /\ pc' = "pre"
       ELSE /\ pc' = "done"
            /\ UNCHANGED <<cycle, sleeps, earlier>>
    /\ UNCHANGED <<self, op, max_cycle, run_cycle_out, idx, messages_all, messages,
                   exc, received, closed>>

\* mutant: the loop breaks as soon as cycle has reached max_cycle, without
\* testing max_cycle > 0
PostBreaksWithoutLimit ==
    /\ pc = "post"
    /\ phases' = [phases EXCEPT !.post = @ + 1]
    /\ calls' = Append(calls, Call("_post", "hook", 0, 0, 0, messages, FALSE, TRUE))
    /\ IF op = "run"
       THEN IF cycle >= max_cycle
            THEN /\ pc' = "stopped"
                 /\ UNCHANGED <<cycle, sleeps, earlier>>
            ELSE /\ cycle < MaxCycle
                 /\ cycle' = cycle + 1
                 /\ sleeps' = sleeps + 1
                 /\ earlier' = SentSoFar
                 /\ pc' = "pre"
       ELSE /\ pc' = "done"
            /\ UNCHANGED <<cycle, sleeps, earlier>>
    /\ UNCHANGED <<self, op, max_cycle, run_cycle_out, idx, messages_all, messages,
                   exc, received, closed>>

Post ==
    /\ pc = "post"
    /\ phases' = [phases EXCEPT !.post = @ + 1]
    /\ calls' = Append(calls, Call("_post", "hook", 0, 0, 0, messages, FALSE, TRUE))
    /\ IF op = "run"
       THEN IF max_cycle > 0 /\ cycle = max_cycle
            THEN /\ pc' = "stopped"
                 /\ UNCHANGED <<cycle, sleeps, earlier>>
            ELSE /\ cycle < MaxCycle
                 /\ cycle' = cycle + 1
                 /\ sleeps' = sleeps + 1
                 /\ earlier' = SentSoFar
                 /\ pc' = "pre"
       ELSE /\ pc' = "done"
            /\ UNCHANGED <<cycle, sleeps, earlier>>
    /\ UNCHANGED <<self, op, max_cycle, run_cycle_out, idx, messages_all, messages,
                   exc, received, closed>>

\* self._post(messages) of a subclass that overrides the hook, raising
PostRaises ==
    /\ pc = "post"
    /\ phases' = [phases EXCEPT !.post = @ + 1]
    /\ Raise(Call("_post", "hook", 0, 0, 0, messages, FALSE, FALSE))

(***************************************************************************)
(* close(), called once a top-level call has ended or on a broker that was *)
(* never run (__exit__ calls it however the with block ends).  It iterates *)
(* self.producers and then self.stores_out; iterating None raises          *)
(* TypeError, and a collaborator's close() may raise.                      *)
(***************************************************************************)
CloseCall(kind, node, good) == [kind |-> kind, node |-> node, ok |-> good]

\* the close() calls made when the k-th collaborator of `nodes` raises
\* (k = 0: none raises)
CloseCalls(nodes, k) ==
    [i \in 1..(IF k = 0 THEN Len(nodes) ELSE k) |->
        CloseCall(nodes[i].kind, nodes[i].node, i # k)]

Close ==
    /\ pc \in {"idle", "done", "stopped", "raised"}
    /\ LET ps == Nodes("producers", self.producers)
           ss == Nodes("stores_out", self.stores_out)
       IN \/ /\ self.producers = NoneVal
             /\ closed' = <<>>
             /\ pc' = "close_raised"
             /\ exc' = "TypeError"
          \/ /\ self.producers # NoneVal
             /\ \E k \in 1..Len(ps) :
                  /\ closed' = CloseCalls(ps, k)
                  /\ pc' = "close_raised"
                  /\ exc' = "CollaboratorError"
          \/ /\ self.producers # NoneVal
             /\ self.stores_out = NoneVal
             /\ closed' = CloseCalls(ps, 0)
             /\ pc' = "close_raised"
             /\ exc' = "TypeError"
          \/ /\ self.producers # NoneVal
             /\ self.stores_out # NoneVal
             /\ \E k \in 1..Len(ss) :
                  /\ closed' = CloseCalls(ps, 0) \o CloseCalls(ss, k)
                  /\ pc' = "close_raised"
                  /\ exc' = "CollaboratorError"
          \/ /\ self.producers # NoneVal
             /\ self.stores_out # NoneVal
             /\ closed' = CloseCalls(ps, 0) \o CloseCalls(ss, 0)
             /\ pc' = "closed"
             /\ exc' = ""
    /\ UNCHANGED <<self, op, max_cycle, run_cycle_out, cycle, idx, messages_all, messages,
                   calls, sleeps, phases, received, earlier>>

(***************************************************************************)
(* The top-level calls.  run is entered with max_cycle 0 (no limit, the    *)
(* default) or a positive limit; a negative max_cycle fails the same       *)
(* `max_cycle > 0` test as 0 does.                                         *)
(***************************************************************************)
Next ==
    \/ \E mc \in 0..MaxCycle, rco \in BOOLEAN : Run(mc, rco)
    \/ \E ms \in Pushes, fm \in BOOLEAN : ReceiveMessages(ms, fm)
    \/ Pre
    \/ CycleIn
    \/ CycleInReturn
    \/ CycleOut
    \/ Post

\* the broker is also closed
NextClose == Next \/ Close

\* run alone, on a broker whose class may override the hooks
NextRun ==
    \/ \E mc \in 0..MaxCycle, rco \in BOOLEAN : Run(mc, rco)
    \/ Pre
    \/ PreRaises
    \/ CycleIn
    \/ CycleInReturn
    \/ CycleOut
    \/ Post
    \/ PostRaises

\* receive_messages alone, on a broker whose class may override the hooks
NextReceive ==
    \/ \E ms \in Pushes, fm \in BOOLEAN : ReceiveMessages(ms, fm)
    \/ CycleOut
    \/ Post
    \/ PostRaises

\* run or receive_messages on a broker with the default filter settings and
\* the hooks of GeoWatchBroker itself, which do nothing
Spec == Init /\ [][Next]_vars

\* run or receive_messages on a broker with any filter settings
SpecFilter == InitFilter /\ [][Next]_vars

\* run on a broker with the default filter settings and any hooks
SpecRun == Init /\ [][NextRun]_vars

\* run or receive_messages, then close, on a broker whose producers and
\* stores_out may be None
SpecClose == InitClose /\ [][NextClose]_vars

\* receive_messages on a broker with any filter settings and any hooks
SpecReceive == InitFilter /\ [][NextReceive]_vars

(***************************************************************************)
(* Reading the record of calls.                                            *)
(***************************************************************************)
Min(a, b) == IF a < b THEN a ELSE b

IsIngest(c) == c.op \in {"read", "get_messages"}

IsOut(c) == c.op \in {"send_messages", "write_messages"}

\* what the first k calls handed over to the broker, in order
RECURSIVE HandedOver(_)
HandedOver(k) ==
    IF k = 0 THEN <<>>
    ELSE HandedOver(k - 1) \o (IF IsIngest(calls[k]) /\ calls[k].ok THEN calls[k].msgs ELSE <<>>)

Fetches == {k \in 1..Len(calls) : calls[k].op = "get_messages"}

OutCalls == SelectSeq(calls, IsOut)

\* the cycle (or receive_messages) ran to the end of its post-hook
PostDone == Len(calls) > 0 /\ calls[Len(calls)].op = "_post" /\ calls[Len(calls)].ok

\* run is past _cycle_in and _cycle_filter of the current cycle
AfterIngest == op = "run" /\ (pc \in {"cycle_out", "post"} \/ PostDone)

\* _cycle_out was called in this cycle or receive_messages
Dispatching == op = "receive" \/ (op = "run" /\ run_cycle_out)

(***************************************************************************)
(* C1.  In every ingest phase, get_messages is called on a consumer or a   *)
(* duplex node only when count minus the number of messages already        *)
(* aggregated (store messages included) is positive, and the max_count     *)
(* passed is exactly that difference; once the buffer holds count or more  *)
(* messages no further get_messages call is made in the cycle.             *)
(***************************************************************************)
C1_FetchWithinCap ==
    \A k \in Fetches :
        /\ Len(HandedOver(k - 1)) < self.count
        /\ calls[k].max_count = self.count - Len(HandedOver(k - 1))
        /\ calls[k].max_count > 0

\* a fetch made with messages already aggregated, which then met the cap
C1_Witness ==
    /\ pc = "cycle_in"
    /\ \E k \in Fetches : Len(HandedOver(k - 1)) > 0 /\ calls[k].ok
    /\ Len(HandedOver(Len(calls))) >= self.count

(***************************************************************************)
(* C2.  With deduplication off, no filters, no input stores and sources    *)
(* that hand over min(requested, pending) messages, the batch of a run     *)
(* cycle holds exactly min(count, total pending) source messages, taken    *)
(* greedily in source order (consumers, then duplex nodes), never more     *)
(* than count; and once the cycle's dispatch is through, every producer    *)
(* and duplex node was sent exactly that sequence.                         *)
(***************************************************************************)
SourcesFull == \A k \in Fetches : calls[k].ok /\ Len(calls[k].msgs) = Min(calls[k].max_count, calls[k].pending)

\* the pending messages of the sources polled so far
RECURSIVE PendingOf(_)
PendingOf(k) ==
    IF k = 0 THEN 0
    ELSE PendingOf(k - 1) + (IF calls[k].op = "get_messages" THEN calls[k].pending ELSE 0)

C2_Premise ==
    /\ AfterIngest
    /\ ~self.deduplicate /\ self.filter_metadata = {} /\ ~self.filter_last_one
    /\ self.stores_in = 0
    /\ SourcesFull

Range(f) == {f[i] : i \in DOMAIN f}

FirstIndex(f, m) == CHOOSE i \in DOMAIN f : f[i] = m /\ \A j \in 1..(i - 1) : f[j] # m

Metadata(m) == IF m = "us" THEN {<<"region", "us">>} ELSE {}

Passes(m, rules) ==
    /\ Metadata(m) # {}
    /\ \A r \in rules : \E kv \in Metadata(m) : kv[1] = r[1] /\ kv[2] \in r[2]

MetadataFiltered(ms, rules) ==
    IF rules # {} THEN SelectSeq(ms, LAMBDA m : Passes(m, rules)) ELSE ms

\* what run hands to _cycle_filter in the current cycle
FilterInput == CycleInResult(HandedOver(Len(calls)))

(***************************************************************************)
(* C4.  With filter_last_one set, the filter applied to a non-empty        *)
(* sequence returns exactly the one-element sequence holding the last      *)
(* element of the metadata-filtered result, and that is what is dispatched *)
(* and passed to the post-hook.                                            *)
(***************************************************************************)
C4_LastOneOnly ==
    (AfterIngest /\ self.filter_last_one /\ NonEmpty(FilterInput)) =>
        LET kept == MetadataFiltered(FilterInput, self.filter_metadata)
        IN NonEmpty(kept) =>
             /\ messages = <<kept[Len(kept)]>>
             /\ \A k \in 1..Len(calls) :
                  (IsOut(calls[k]) \/ calls[k].op = "_post") => calls[k].msgs = <<kept[Len(kept)]>>

(***************************************************************************)
(* C5.  With filter_last_one set, the filter applied to an empty sequence  *)
(* returns the empty sequence and raises nothing, so a cycle in which no   *)
(* store or source yields a message runs on to its post-hook.              *)
(***************************************************************************)
C5_EmptyLastOneReturns ==
    (self.filter_last_one /\ op = "run" /\ pc # "cycle_in" /\ pc # "pre"
        /\ (\A k \in 1..Len(calls) : calls[k].ok) /\ HandedOver(Len(calls)) = <<>>)
    => (pc # "raised" /\ exc = "")

(***************************************************************************)
(* C6.  With metadata rules configured, a message is in the filter's       *)
(* output if and only if it carries metadata and satisfies every rule; a   *)
(* message without metadata, or failing a rule, is left out and no error   *)
(* is raised.                                                              *)
(***************************************************************************)
C6_MetadataRules ==
    (AfterIngest /\ self.filter_metadata # {} /\ ~self.filter_last_one) =>
        messages = MetadataFiltered(FilterInput, self.filter_metadata)

(***************************************************************************)
(* C7.  When the sequence handed to _cycle_out is empty, no send_messages  *)
(* call is made on a producer or duplex node and no write_messages call on *)
(* an output store, in run and in receive_messages alike.                  *)
(***************************************************************************)
C7_EmptyBatchNoCalls ==
    /\ ~NonEmpty(messages) => OutCalls = <<>>
    /\ \A i \in 1..Len(OutCalls) : NonEmpty(OutCalls[i].msgs)

\* a run cycle with destinations configured that ended with an empty batch
C7_Witness ==
    /\ op = "run" /\ run_cycle_out /\ PostDone
    /\ Len(Destinations) > 0
    /\ calls[Len(calls)].msgs = <<>>

(***************************************************************************)
(* C8.  When the sequence handed to _cycle_out is non-empty and no         *)
(* collaborator fails, exactly one send_messages call is made on every     *)
(* producer in list order, then exactly one on every duplex node, then     *)
(* exactly one write_messages call with flush=true on every output store,  *)
(* and each call receives the same full batch.                             *)
(***************************************************************************)
ExpectedOut(batch) ==
    [i \in 1..(self.producers + self.duplex + self.stores_out) |->
        IF i <= self.producers
        THEN Call("send_messages", "producers", i, 0, 0, batch, FALSE, TRUE)
        ELSE IF i <= self.producers + self.duplex
        THEN Call("send_messages", "duplex", i - self.producers, 0, 0, batch, FALSE, TRUE)
        ELSE Call("write_messages", "stores_out", i - self.producers - self.duplex,
                  0, 0, batch, TRUE, TRUE)]

C8_FanOutInOrder ==
    (PostDone /\ Dispatching /\ NonEmpty(calls[Len(calls)].msgs)) =>
        /\ OutCalls = ExpectedOut(calls[Len(calls)].msgs)
        \* the calls sit between the ingest calls and the post-hook
        /\ \A i, j \in 1..Len(calls) : (IsOut(calls[i]) /\ IsIngest(calls[j])) => j < i

\* a batch fanned out to two kinds of destination
C8_Witness ==
    /\ PostDone /\ Dispatching
    /\ Len(OutCalls) = 2
    /\ OutCalls[1].kind # OutCalls[2].kind

(***************************************************************************)
(* C9.  During the dispatch of a non-empty batch, the failure of one       *)
(* destination's send_messages or write_messages call does not keep the    *)
(* remaining producers, duplex nodes and output stores from receiving the  *)
(* batch in that dispatch.                                                 *)
(***************************************************************************)
C9_FailureIsolated ==
    (pc \in {"raised", "done", "stopped", "pre"} /\ \E i \in 1..Len(OutCalls) : ~OutCalls[i].ok) =>
        \A d \in 1..Len(Destinations) :
            \E i \in 1..Len(OutCalls) :
                OutCalls[i].kind = Destinations[d].kind /\ OutCalls[i].node = Destinations[d].node

(***************************************************************************)
(* C10.  A get_messages call that fails during the ingest phase counts as  *)
(* zero messages from that source: the remaining sources are still polled  *)
(* and the cycle goes on to filter, dispatch and post-hook.                *)
(***************************************************************************)
C10_FetchFailureSkipped ==
    (\E k \in Fetches : ~calls[k].ok) => pc # "raised"

(***************************************************************************)
(* C11: with max_cycle = N > 0 and nothing failing, run stops after        *)
(* exactly N cycles: when it has stopped it has called the pre-hook, the   *)
(* ingest phase and the post-hook N times each, the dispatch phase N times *)
(* when run_cycle_out is set and never otherwise, and it has slept N - 1   *)
(* times; before it stops it is in no cycle beyond the Nth and has slept   *)
(* fewer than N times.                                                     *)
(***************************************************************************)
C11_StopsAfterMaxCycle ==
    (op = "run" /\ max_cycle > 0) =>
        /\ cycle <= max_cycle
        /\ sleeps <= max_cycle - 1
        /\ pc = "stopped" =>
              /\ cycle = max_cycle
              /\ phases.pre = max_cycle
              /\ phases.cycle_in = max_cycle
              /\ phases.cycle_out = (IF run_cycle_out THEN max_cycle ELSE 0)
              /\ phases.post = max_cycle
              /\ sleeps = max_cycle - 1

\* a run of two cycles that dispatched in both has stopped
C11_Witness ==
    /\ op = "run" /\ pc = "stopped" /\ max_cycle = 2 /\ run_cycle_out
    /\ sleeps = 1 /\ Len(OutCalls) > 0

(***************************************************************************)
(* C12: with max_cycle <= 0 and nothing failing, run never stops: whenever *)
(* a cycle's post-hook has returned, run has slept once for every cycle    *)
(* completed and is at the pre-hook of the next cycle.                     *)
(***************************************************************************)
C12_UnboundedNeverStops ==
    (op = "run" /\ max_cycle <= 0) =>
        /\ pc # "stopped"
        /\ PostDone =>
              /\ pc = "pre"
              /\ sleeps = phases.post
              /\ cycle = phases.post + 1

\* an unbounded run has completed a cycle, slept and started the next
C12_Witness ==
    /\ op = "run" /\ max_cycle <= 0 /\ sleeps = 1 /\ cycle = 2
    /\ pc = "cycle_in" /\ phases.pre = 2

(***************************************************************************)
(* C13: close() on a broker that has no sink and no output store completes *)
(* without error, whether producers and stores_out are empty lists or were *)
(* left at None.                                                           *)
(***************************************************************************)
C13_CloseWithoutSinks ==
    (pc \in {"closed", "close_raised"}
        /\ ~Truthy(self.producers) /\ ~Truthy(self.stores_out)) =>
            pc = "closed" /\ exc = ""

(***************************************************************************)
(* C14: receive_messages(M) ingests nothing; it filters M (it skips the    *)
(* filter and takes M itself when filter_messages is false), dispatches    *)
(* the result to every destination and only then passes the same result to *)
(* the post-hook.                                                          *)
(***************************************************************************)
ReceiveExpected ==
    IF received.filter_messages
    THEN CycleFilter(received.messages).value
    ELSE received.messages

C14_ReceiveFiltersDispatchesPosts ==
    op = "receive" =>
        /\ phases.pre = 0 /\ phases.cycle_in = 0
        /\ \A k \in 1..Len(calls) : ~IsIngest(calls[k]) /\ calls[k].op # "_pre"
        /\ ~received.filter_messages => exc \notin {"TypeError", "IndexError"}
        /\ pc \in {"cycle_out", "post", "done"} => messages = ReceiveExpected
        /\ \A k \in 1..Len(calls) :
              /\ calls[k].msgs = ReceiveExpected
              /\ calls[k].op = "_post" =>
                    /\ k = Len(calls)
                    /\ \A j \in 1..(k - 1) : IsOut(calls[j]) /\ calls[j].ok
                    /\ NonEmpty(ReceiveExpected) => k - 1 = Len(Destinations)
        /\ pc = "done" => PostDone

\* a push with filter_messages false, on a broker whose filter would have
\* raised, went to two destinations and then to the post-hook
C14_Witness ==
    /\ op = "receive" /\ pc = "done" /\ ~received.filter_messages
    /\ self.filter_metadata # {} /\ "metadata" \in Range(received.messages)
    /\ Len(OutCalls) = 2 /\ PostDone

(***************************************************************************)
(* C15: the batch receive_messages(M) dispatches is the batch a cycle of   *)
(* run dispatches when its aggregation buffer is M: M deduplicated when    *)
(* deduplicate is set, then filtered.                                      *)
(***************************************************************************)
C15_ReceiveSameAsRunCycle ==
    (op = "receive" /\ received.filter_messages /\ Len(OutCalls) > 0) =>
        OutCalls[1].msgs = CycleFilter(CycleInResult(received.messages)).value

(***************************************************************************)
(* C16: in the ingest phase read() is called on every input store, in      *)
(* store-list order and whatever the cap; then the consumers are polled in *)
(* list order, then the duplex nodes in list order; the aggregation buffer *)
(* is the concatenation of what was handed over, in that order.            *)
(***************************************************************************)
IngestCalls == SelectSeq(calls, IsIngest)

KindRank(kind) == CASE kind = "stores_in" -> 1 [] kind = "consumers" -> 2 [] OTHER -> 3

ComesBefore(c, d) ==
    \/ KindRank(c.kind) < KindRank(d.kind)
    \/ KindRank(c.kind) = KindRank(d.kind) /\ c.node < d.node

C16_IngestOrder ==
    op = "run" =>
        LET ic == IngestCalls
        IN /\ \A i \in 1..(Len(ic) - 1) : ComesBefore(ic[i], ic[i + 1])
           /\ \A i \in 1..Len(ic) : ic[i].op = "read" <=> ic[i].kind = "stores_in"
           /\ (AfterIngest \/ Fetches # {}) =>
                 \A n \in 1..self.stores_in :
                   /\ n <= Len(ic)
                   /\ ic[n].op = "read" /\ ic[n].node = n /\ ic[n].ok
           /\ (pc # "raised" /\ calls # <<>>) => messages_all = HandedOver(Len(calls))

\* the first of two input stores handed over as many messages as the cap
\* allows, and the second was read all the same
C16_Witness ==
    /\ AfterIngest /\ self.stores_in = 2 /\ Len(IngestCalls) = 2
    /\ Len(IngestCalls[1].msgs) >= self.count /\ NonEmpty(IngestCalls[1].msgs)
    /\ IngestCalls[2].node = 2

(***************************************************************************)
(* C17: a cycle of run goes pre-hook, ingest (with deduplication), filter, *)
(* dispatch, post-hook, and the post-hook of a cycle comes before the      *)
(* pre-hook of the next; the post-hook gets the filtered sequence that was *)
(* or would have been dispatched; with run_cycle_out false no sink or      *)
(* store call is made and the post-hook is still called in every cycle.    *)
(***************************************************************************)
PhaseRank(c) ==
    CASE c.op = "_pre" -> 1 [] IsIngest(c) -> 2 [] IsOut(c) -> 3 [] OTHER -> 4

C17_PhaseOrder ==
    op = "run" =>
        /\ \A i \in 1..(Len(calls) - 1) : PhaseRank(calls[i]) <= PhaseRank(calls[i + 1])
        /\ \A k \in 1..Len(calls) :
              /\ calls[k].op = "_pre" <=> k = 1
              /\ calls[k].op = "_post" => k = Len(calls) /\ calls[k].msgs = messages
              /\ IsOut(calls[k]) => run_cycle_out /\ calls[k].msgs = messages
        /\ AfterIngest => messages = CycleFilter(FilterInput).value
        /\ ~run_cycle_out => OutCalls = <<>> /\ phases.cycle_out = 0
        /\ phases.post <= phases.pre /\ phases.pre <= phases.post + 1
        /\ pc = "pre" => phases.pre = phases.post /\ phases.post = cycle - 1
        /\ pc = "stopped" => phases.post = cycle

\* the second cycle of a run with run_cycle_out false had a batch and
\* somewhere to send it, and went to the post-hook without sending
C17_Witness ==
    /\ op = "run" /\ ~run_cycle_out /\ PostDone /\ phases.post = 2
    /\ NonEmpty(calls[Len(calls)].msgs) /\ Len(Destinations) > 0

(***************************************************************************)
(* C18: run keeps no message state from cycle to cycle: the buffer holds   *)
(* what was handed over in this cycle and nothing else, and every message  *)
(* handed over in this cycle is in this cycle's batch and is sent to every *)
(* destination, also when deduplicate is set and an earlier cycle sent the *)
(* same message.                                                           *)
(***************************************************************************)
C18_NoStateBetweenCycles ==
    op = "run" =>
        LET handed == Range(HandedOver(Len(calls)))
        IN /\ (pc = "cycle_in" /\ Len(calls) = 1) => messages_all = <<>>
           /\ (pc # "raised" /\ calls # <<>>) => Range(messages_all) = handed
           /\ AfterIngest =>
                 /\ Range(messages) = handed
                 /\ \A k \in 1..Len(calls) :
                       IsOut(calls[k]) => Range(calls[k].msgs) = handed
           /\ (AfterIngest /\ PostDone /\ run_cycle_out /\ NonEmpty(messages)) =>
                 Len(OutCalls) = Len(Destinations)

\* with deduplicate set, a message that an earlier cycle sent is sent
\* again in this cycle
C18_Witness ==
    /\ op = "run" /\ self.deduplicate /\ PostDone /\ cycle >= 2
    /\ Len(OutCalls) > 0
    /\ \E m \in earlier : m \in Range(OutCalls[1].msgs)

(***************************************************************************)
(* C19: when a collaborator call or a hook fails during a cycle of run,    *)
(* the failure ends run: the failed call is the last call made (no later   *)
(* phase, no post-hook, no retry), run does not sleep and starts no        *)
(* further cycle.                                                          *)
(***************************************************************************)
C19_FailureEndsRun ==
    op = "run" =>
        /\ \A k \in 1..Len(calls) :
              ~calls[k].ok =>
                /\ k = Len(calls)
                /\ pc = "raised" /\ exc = "CollaboratorError"
                /\ calls[k].op # "_post" => phases.post = cycle - 1
        /\ pc = "raised" =>
              /\ ~calls[Len(calls)].ok
              /\ phases.pre = cycle
              /\ sleeps = cycle - 1

\* in the second cycle a destination failed after another had been sent to
C19_Witness ==
    /\ op = "run" /\ pc = "raised" /\ cycle = 2 /\ Len(OutCalls) = 2
    /\ OutCalls[1].ok /\ ~OutCalls[2].ok

(***************************************************************************)
(* C20: in a cycle of run with run_cycle_out set and a non-empty batch,    *)
(* every duplex node is sent the whole batch, and with it every message    *)
(* that was fetched from that same node in this cycle.                     *)
(***************************************************************************)
C20_DuplexEcho ==
    (op = "run" /\ run_cycle_out /\ PostDone /\ NonEmpty(messages)) =>
        \A d \in 1..self.duplex :
          \E k \in 1..Len(calls) :
            /\ calls[k].op = "send_messages" /\ calls[k].kind = "duplex"
            /\ calls[k].node = d /\ calls[k].ok
            /\ calls[k].msgs = messages
            /\ \A j \in 1..Len(calls) :
                  (calls[j].op = "get_messages" /\ calls[j].kind = "duplex"
                      /\ calls[j].node = d) =>
                    /\ j < k
                    /\ Range(calls[j].msgs) \subseteq Range(calls[k].msgs)

\* a duplex node handed over a message and was sent it back
C20_Witness ==
    /\ op = "run" /\ run_cycle_out /\ PostDone /\ self.duplex = 1
    /\ \E j, k \in 1..Len(calls) :
         /\ calls[j].op = "get_messages" /\ calls[j].kind = "duplex"
         /\ NonEmpty(calls[j].msgs)
         /\ calls[k].op = "send_messages" /\ calls[k].kind = "duplex"
         /\ calls[k].msgs = calls[j].msgs

=============================================================================
